---- MODULE Spec2Model ----
(***************************************************************************)
(* Model of the manufacturing hourly-sheet tracker: the record table, the  *)
(* anomaly engine (anomaly_detection.py), the downtime risk scorer and the *)
(* target advisor (prediction_models.py), the shift of a time of day       *)
(* (utils.py) and the Submit and Import handlers of the app (app.py,       *)
(* import_data.py, data_manager.py).                                       *)
(*                                                                         *)
(* out holds the call last made: its result, or the exception that reached *)
(* the caller.                                                             *)
(*                                                                         *)
(* Numbers.  pandas computes the ratios in IEEE doubles.  A double is      *)
(* modelled as a record [k, n, d]: k = "fin" is the exact rational n/d     *)
(* (d > 0, lowest terms), k = "nan", "inf", "ninf" are the three special   *)
(* values a division by zero produces.  Decimal literals of the source     *)
(* (0.7, 1.1, ...) are the exact decimals.                                 *)
(*                                                                         *)
(* Machine ids are strings in the source; here they are the naturals       *)
(* 1, 2, ... whose order stands for the string order groupby sorts by.     *)
(* A date is a day number and a time of day is a small natural.            *)
(***************************************************************************)
EXTENDS Integers, Sequences, FiniteSets, TLC

VARIABLES df, columns, model_file, data_file, out

vars == <<df, columns, model_file, data_file, out>>

---------------------------------------------------------------------------
(* Bounds of the model. *)

MaxRowsFeat == 5

\* records of one machine in the tables of SpecFail
MaxGroupFail == 5

MaxRowsFrame == 5

MaxRowsMissing == 3

MaxRowsRecent == 6

MaxRowsHorizon == 22

\* records the session table of the app grows to by Submit
MaxRowsApp == 4

\* rows of hourly_sheet.csv
MaxRowsImport == 2

MaxRowsGroups == 7

MaxRowsColumns == 6

MaxRowsReason == 4

MaxRowsRisk == 3

MaxRowsTarget == 4

---------------------------------------------------------------------------
(* IEEE arithmetic on exact rationals with NaN and the infinities. *)

Abs(i) == IF i < 0 THEN -i ELSE i

RECURSIVE GCD(_, _)
GCD(a, b) == IF b = 0 THEN a ELSE GCD(b, a % b)

NaN == [k |-> "nan", n |-> 0, d |-> 1]

Inf == [k |-> "inf", n |-> 0, d |-> 1]

NInf == [k |-> "ninf", n |-> 0, d |-> 1]

Fin(n, d) ==
  LET s == IF d < 0 THEN -1 ELSE 1
      g == GCD(Abs(n), Abs(d))
  IN  [k |-> "fin", n |-> (s * n) \div g, d |-> (s * d) \div g]

FromInt(i) == [k |-> "fin", n |-> i, d |-> 1]

IsFin(x) == x.k = "fin"

IsNaN(x) == x.k = "nan"

Sign(x) ==
  CASE x.k = "inf" -> 1
    [] x.k = "ninf" -> -1
    [] x.k = "nan" -> 0
    [] OTHER -> IF x.n > 0 THEN 1 ELSE IF x.n < 0 THEN -1 ELSE 0

FNeg(x) ==
  CASE x.k = "inf" -> NInf
    [] x.k = "ninf" -> Inf
    [] x.k = "nan" -> NaN
    [] OTHER -> Fin(-x.n, x.d)

FAdd(x, y) ==
  CASE IsNaN(x) \/ IsNaN(y) -> NaN
    [] IsFin(x) /\ IsFin(y) -> Fin(x.n * y.d + y.n * x.d, x.d * y.d)
    [] IsFin(x) -> y
    [] IsFin(y) -> x
    [] OTHER -> IF x.k = y.k THEN x ELSE NaN

FMul(x, y) ==
  CASE IsNaN(x) \/ IsNaN(y) -> NaN
    [] IsFin(x) /\ IsFin(y) -> Fin(x.n * y.n, x.d * y.d)
    [] OTHER -> IF Sign(x) * Sign(y) = 0 THEN NaN
                ELSE IF Sign(x) * Sign(y) > 0 THEN Inf ELSE NInf

FDiv(x, y) ==
  CASE IsNaN(x) \/ IsNaN(y) -> NaN
    [] IsFin(x) /\ IsFin(y) ->
         IF y.n # 0 THEN Fin(x.n * y.d, x.d * y.n)
         ELSE IF x.n > 0 THEN Inf ELSE IF x.n < 0 THEN NInf ELSE NaN
    [] IsFin(x) -> FromInt(0)
    [] IsFin(y) -> IF (IF Sign(y) < 0 THEN -Sign(x) ELSE Sign(x)) > 0 THEN Inf ELSE NInf
    [] OTHER -> NaN

\* x < y as the interpreter compares doubles: any comparison with NaN is false
FLt(x, y) ==
  CASE IsNaN(x) \/ IsNaN(y) -> FALSE
    [] IsFin(x) /\ IsFin(y) -> x.n * y.d < y.n * x.d
    [] x.k = "ninf" -> y.k # "ninf"
    [] y.k = "inf" -> x.k # "inf"
    [] OTHER -> FALSE

FGt(x, y) == FLt(y, x)

FGe(x, y) == (~ IsNaN(x)) /\ (~ IsNaN(y)) /\ ~ FLt(x, y)

\* int(x) of a finite double: truncation toward zero
Trunc(x) == IF x.n >= 0 THEN x.n \div x.d ELSE -((-x.n) \div x.d)

\* round(x) of a finite double to the nearest integer, halves to even; the
\* source never rounds, this is what a rounding variant would compute
Round(x) ==
  LET f == x.n \div x.d
      r == 2 * (x.n - f * x.d)
  IN  IF r < x.d THEN f
      ELSE IF r > x.d THEN f + 1
      ELSE IF f % 2 = 0 THEN f ELSE f + 1

RECURSIVE FSum(_)
FSum(s) == IF s = <<>> THEN FromInt(0) ELSE FAdd(Head(s), FSum(Tail(s)))

\* Series.mean(): NaN entries are skipped (skipna), no entry left gives NaN
Mean(s) ==
  LET kept == SelectSeq(s, LAMBDA x : ~ IsNaN(x))
  IN  IF kept = <<>> THEN NaN ELSE FDiv(FSum(kept), FromInt(Len(kept)))

\* Series.fillna(0).replace([inf, -inf], 0)
FillNa0(x) == IF IsNaN(x) THEN FromInt(0) ELSE x

ReplaceInf0_PositiveOnly(x) == IF x.k = "inf" THEN FromInt(0) ELSE x

ReplaceInf0(x) == IF x.k \in {"inf", "ninf"} THEN FromInt(0) ELSE x

---------------------------------------------------------------------------
(* The record table. *)

NumericCols ==
  {"Target_Output", "Actual_Output", "Cumulative_Output", "Defects", "Downtime_Minutes"}

AllCols ==
  NumericCols \cup {"Date", "Shift", "Machine_ID", "Operator_Name", "Product_Name",
                    "Downtime_Reason", "Remarks", "Timestamp"}

Row(m, date, time, shift, t, a, d, dt) ==
  [Machine_ID |-> m, Date |-> date, Time |-> time, Shift |-> shift,
   Target_Output |-> t, Actual_Output |-> a, Cumulative_Output |-> a,
   Defects |-> d, Downtime_Minutes |-> dt]

RECURSIVE SeqsUpTo(_, _)
SeqsUpTo(S, n) ==
  IF n = 0 THEN {<<>>}
  ELSE LET prev == SeqsUpTo(S, n - 1)
       IN  prev \cup {Append(s, x) : s \in {p \in prev : Len(p) = n - 1}, x \in S}

\* positions of the rows of machine m, in table order
Positions(rows, m) == {i \in 1..Len(rows) : rows[i].Machine_ID = m}

Group(rows, m) == SelectSeq(rows, LAMBDA r : r.Machine_ID = m)

MachineIds(rows) == {rows[i].Machine_ID : i \in 1..Len(rows)}

RECURSIVE SortedIds(_)
SortedIds(S) ==
  IF S = {} THEN <<>>
  ELSE LET lo == CHOOSE x \in S : \A y \in S : x <= y
       IN  <<lo>> \o SortedIds(S \ {lo})

\* elementwise Series / Series on integer columns
SeriesDiv(rows, num, den) ==
  [i \in 1..Len(rows) |-> FDiv(FromInt(rows[i][num]), FromInt(rows[i][den]))]

---------------------------------------------------------------------------
(* anomaly_detection.py *)

None == [none |-> TRUE, rows |-> <<>>]

Some(rows) == [none |-> FALSE, rows |-> rows]

\* the feature rows of one machine group, one per record of the group
GroupFeatures(rows, m) ==
  LET pos == SortedIds(Positions(rows, m))
      eff == SeriesDiv(rows, "Actual_Output", "Target_Output")
      dr  == SeriesDiv(rows, "Defects", "Actual_Output")
      dpu == SeriesDiv(rows, "Downtime_Minutes", "Actual_Output")
  IN  [j \in 1..Len(pos) |->
         [efficiency        |-> ReplaceInf0(FillNa0(eff[pos[j]])),
          defect_rate       |-> ReplaceInf0(FillNa0(dr[pos[j]])),
          downtime_per_unit |-> ReplaceInf0(FillNa0(dpu[pos[j]])),
          machine_id        |-> m,
          index             |-> pos[j] - 1]]

GroupRetained_Min2(rows, m) == ~ (Len(Group(rows, m)) < 2)

\* a group is kept when it has at least 3 records
GroupRetained(rows, m) == ~ (Len(Group(rows, m)) < 3)

RECURSIVE ConcatFeatures(_, _)
ConcatFeatures(rows, ids) ==
  IF ids = <<>> THEN <<>>
  ELSE (IF GroupRetained(rows, Head(ids)) THEN GroupFeatures(rows, Head(ids)) ELSE <<>>)
       \o ConcatFeatures(rows, Tail(ids))

\* the table is too small for detection
TooFewRecords(rows) == Len(rows) = 0 \/ Len(rows) < 5

HasNumericCols_Any(cols) == \E c \in NumericCols : c \in cols

HasNumericCols(cols) == NumericCols \subseteq cols

\* feature_df of prepare_anomaly_features(df); None stands for (None, None)
prepare_anomaly_features(cols, rows) ==
  IF TooFewRecords(rows) THEN None
  ELSE IF ~ HasNumericCols(cols) THEN None
  ELSE LET all_features == ConcatFeatures(rows, SortedIds(MachineIds(rows)))
       IN  IF all_features = <<>> THEN None ELSE Some(all_features)

Msg(kind, x, y) == [kind |-> kind, x |-> x, y |-> y]

RuleDowntime_Triple(record, avg_downtime) ==
  /\ FGt(FromInt(record.Downtime_Minutes), FMul(avg_downtime, FromInt(3)))
  /\ record.Downtime_Minutes > 10

\* rule (a): downtime above twice the machine's average and above 10 minutes
RuleDowntime(record, avg_downtime) ==
  /\ FGt(FromInt(record.Downtime_Minutes), FMul(avg_downtime, FromInt(2)))
  /\ record.Downtime_Minutes > 10

\* rule (b): efficiency below 0.7 of the machine's average
RuleEfficiency(efficiency, avg_efficiency) ==
  /\ FLt(efficiency, FMul(avg_efficiency, Fin(7, 10)))
  /\ FGt(avg_efficiency, FromInt(0))

\* rule (c): defect rate above 1.5 x average + 0.05 and above 0.1
RuleDefects(defect_rate, avg_defect_rate) ==
  /\ FGt(defect_rate, FAdd(FMul(avg_defect_rate, Fin(3, 2)), Fin(5, 100)))
  /\ FGt(defect_rate, Fin(1, 10))

\* rule (d): output below 0.6 of the target
RuleBelowTarget(record) ==
  /\ FLt(FromInt(record.Actual_Output), FMul(FromInt(record.Target_Output), Fin(6, 10)))
  /\ record.Target_Output > 0

RecordEfficiency(record) ==
  IF record.Target_Output > 0
  THEN FDiv(FromInt(record.Actual_Output), FromInt(record.Target_Output))
  ELSE FromInt(0)

RecordDefectRate(record) ==
  IF record.Actual_Output > 0
  THEN FDiv(FromInt(record.Defects), FromInt(record.Actual_Output))
  ELSE FromInt(0)

AvgEfficiency(machine_data) ==
  Mean(SeriesDiv(machine_data, "Actual_Output", "Target_Output"))

AvgDefectRate(machine_data) ==
  Mean(SeriesDiv(machine_data, "Defects", "Actual_Output"))

AvgDowntime(machine_data) ==
  Mean([i \in 1..Len(machine_data) |-> FromInt(machine_data[i].Downtime_Minutes)])

determine_anomaly_reason_TargetFirst(record, rows) ==
  LET efficiency      == RecordEfficiency(record)
      defect_rate     == RecordDefectRate(record)
      machine_data    == Group(rows, record.Machine_ID)
      avg_efficiency  == AvgEfficiency(machine_data)
      avg_defect_rate == AvgDefectRate(machine_data)
      avg_downtime    == AvgDowntime(machine_data)
  IN  IF RuleDowntime(record, avg_downtime)
        THEN Msg("Unusual downtime", FromInt(record.Downtime_Minutes), avg_downtime)
      ELSE IF RuleBelowTarget(record)
        THEN Msg("Output significantly below target",
                 FromInt(record.Actual_Output), FromInt(record.Target_Output))
      ELSE IF RuleEfficiency(efficiency, avg_efficiency)
        THEN Msg("Production efficiency dropped", efficiency, avg_efficiency)
      ELSE IF RuleDefects(defect_rate, avg_defect_rate)
        THEN Msg("High defect rate", defect_rate, avg_defect_rate)
      ELSE Msg("Unusual production pattern detected", FromInt(0), FromInt(0))

\* the message is modelled by its kind and the two values it prints
determine_anomaly_reason(record, rows) ==
  LET efficiency      == RecordEfficiency(record)
      defect_rate     == RecordDefectRate(record)
      machine_data    == Group(rows, record.Machine_ID)
      avg_efficiency  == AvgEfficiency(machine_data)
      avg_defect_rate == AvgDefectRate(machine_data)
      avg_downtime    == AvgDowntime(machine_data)
  IN  IF RuleDowntime(record, avg_downtime)
        THEN Msg("Unusual downtime", FromInt(record.Downtime_Minutes), avg_downtime)
      ELSE IF RuleEfficiency(efficiency, avg_efficiency)
        THEN Msg("Production efficiency dropped", efficiency, avg_efficiency)
      ELSE IF RuleDefects(defect_rate, avg_defect_rate)
        THEN Msg("High defect rate", defect_rate, avg_defect_rate)
      ELSE IF RuleBelowTarget(record)
        THEN Msg("Output significantly below target",
                 FromInt(record.Actual_Output), FromInt(record.Target_Output))
      ELSE Msg("Unusual production pattern detected", FromInt(0), FromInt(0))

\* positions in feature_df of the feature rows of machine m
FeaturePositions(F, m) == {j \in 1..Len(F) : F[j].machine_id = m}

GroupEligible_Min3(n) == ~ (n < 3)

\* detect_anomalies skips a machine with fewer than 5 feature rows
GroupEligible(n) == ~ (n < 5)

\* IsolationForest(contamination=0.1): the rows scored strictly below the
\* 10th percentile of the n scores are labelled -1, which is at most
\* ceil(0.1 * (n - 1)) of them
MaxOutliers(n) == (n + 8) \div 10

SameFeatures(f, g) ==
  /\ f.efficiency = g.efficiency
  /\ f.defect_rate = g.defect_rate
  /\ f.downtime_per_unit = g.downtime_per_unit

\* the feature rows of the group of row j that score as row j does
SameScore(F, j) ==
  {i \in FeaturePositions(F, F[j].machine_id) : SameFeatures(F[i], F[j])}

Flaggable_SharedDetector(F) ==
  {j \in 1..Len(F) :
     GroupEligible(Len(F)) /\ Cardinality(SameScore(F, j)) <= MaxOutliers(Len(F))}

\* rows that some labelling can flag: in an eligible group, and with few
\* enough equal rows to fit under the contamination threshold together
Flaggable(F) ==
  {j \in 1..Len(F) :
     LET n == Cardinality(FeaturePositions(F, F[j].machine_id))
     IN  GroupEligible(n) /\ Cardinality(SameScore(F, j)) <= MaxOutliers(n)}

\* The sets of feature rows fit_predict may label -1.  The forest is seeded
\* but its partitioning is not modelled: any labelling is allowed that flags
\* at most MaxOutliers rows of a group and flags rows with equal features
\* (hence equal scores) together.
Labellings(F) ==
  {O \in SUBSET Flaggable(F) :
     \A j \in O :
       LET g == FeaturePositions(F, F[j].machine_id)
       IN  /\ Cardinality(O \cap g) <= MaxOutliers(Cardinality(g))
           /\ SameScore(F, j) \subseteq O}

Anomaly_PreviousRecord(rows, f, confidence) ==
  LET anomaly_record == rows[IF f.index = 0 THEN 1 ELSE f.index]
  IN  [machine_id |-> f.machine_id,
       date       |-> anomaly_record.Date,
       shift      |-> anomaly_record.Shift,
       message    |-> determine_anomaly_reason(anomaly_record, rows),
       confidence |-> confidence,
       index      |-> f.index]

\* the anomaly built from the record original_df.loc[idx] of a flagged
\* feature row; index is not a key of the source's dict: it records which
\* record the anomaly was built from
Anomaly(rows, f, confidence) ==
  LET anomaly_record == rows[f.index + 1]
  IN  [machine_id |-> f.machine_id,
       date       |-> anomaly_record.Date,
       shift      |-> anomaly_record.Shift,
       message    |-> determine_anomaly_reason(anomaly_record, rows),
       confidence |-> confidence,
       index      |-> f.index]

\* the anomalies of the flagged rows O, in feature_df order, for one draw of
\* the confidences
AnomalyList(rows, F, O, conf) ==
  LET order == SortedIds(O)
  IN  [j \in 1..Len(order) |-> Anomaly(rows, F[order[j]], conf[order[j]])]

\* the machines the loop fits a model on, in the order of the loop
EligibleIds(F) ==
  SortedIds({F[j].machine_id : j \in {i \in 1..Len(F) :
               GroupEligible(Cardinality(FeaturePositions(F, F[i].machine_id)))}})

\* anomaly_record["Date"] and anomaly_record["Shift"] raise KeyError on a
\* table without the column
RecordColsMissing(cols) == ~ ({"Date", "Shift"} \subseteq cols)

\* The try block of machine m ends in the except clause: the fit raised, or
\* building the first anomaly of the group raised KeyError.  Either way
\* nothing was appended for the group.
GroupFails(cols, F, O, fit_failed, m) ==
  \/ m \in fit_failed
  \/ RecordColsMissing(cols) /\ O \cap FeaturePositions(F, m) # {}

RestAfterFailure_Break(ids) == <<>>

\* except Exception: print and continue with the next machine
RestAfterFailure(ids) == Tail(ids)

\* the loop over the machines of feature_df
RECURSIVE DetectLoop(_, _, _, _, _, _, _)
DetectLoop(cols, rows, F, ids, O, conf, fit_failed) ==
  IF ids = <<>> THEN <<>>
  ELSE LET m == Head(ids)
       IN  IF GroupFails(cols, F, O, fit_failed, m)
           THEN DetectLoop(cols, rows, F, RestAfterFailure(ids), O, conf, fit_failed)
           ELSE AnomalyList(rows, F, O \cap FeaturePositions(F, m), conf)
                  \o DetectLoop(cols, rows, F, Tail(ids), O, conf, fit_failed)

\* the machines whose fit can have raised under the labelling O: those
\* fitted on, with no row labelled
FitMayFail(F, O) ==
  {m \in {F[j].machine_id : j \in 1..Len(F)} :
     /\ GroupEligible(Cardinality(FeaturePositions(F, m)))
     /\ O \cap FeaturePositions(F, m) = {}}

\* the machines whose try block ended in the except clause
FailedIds(cols, F, O, fit_failed) ==
  {m \in {F[j].machine_id : j \in 1..Len(F)} : GroupFails(cols, F, O, fit_failed, m)}

\* the flagged rows an anomaly is appended for
Reported(cols, F, O, fit_failed) ==
  {j \in O : ~ GroupFails(cols, F, O, fit_failed, F[j].machine_id)}

\* groupby("Machine_ID") raises KeyError, outside any try block, on a table
\* that passes the size and column checks and has no Machine_ID column
GroupKeyMissing(cols, rows) ==
  /\ ~ TooFewRecords(rows)
  /\ HasNumericCols(cols)
  /\ "Machine_ID" \notin cols

\* what a call of detect_anomalies did besides its result: the indexes of the
\* records labelled -1 and the machines whose try block ended in the except
\* clause
DetectTrace(labelled, failed) == [labelled |-> labelled, failed |-> failed]

---------------------------------------------------------------------------
(* prediction_models.py *)

RECURSIVE SumCol(_, _)
SumCol(rows, c) == IF rows = <<>> THEN 0 ELSE Head(rows)[c] + SumCol(Tail(rows), c)

\* Series.max(); NaN on an empty series
MaxCol(rows, c) ==
  IF rows = <<>> THEN NaN
  ELSE FromInt(CHOOSE x \in {rows[i][c] : i \in 1..Len(rows)} :
                 \A i \in 1..Len(rows) : rows[i][c] <= x)

MinInt(a, b) == IF a < b THEN a ELSE b

MaxInt(a, b) == IF a > b THEN a ELSE b

\* the DateTime of a record is its date and the time of day of its timestamp
DateTimeLeq(r1, r2) ==
  r1.Date < r2.Date \/ (r1.Date = r2.Date /\ r1.Time <= r2.Time)

\* sort_values("DateTime").tail(recent_records): the sort is not stable, so
\* records with equal DateTime may come out in any order; each set of
\* positions the tail may hold
TailChoices(machine_df, recent_records) ==
  LET n == Len(machine_df)
      \* the records that come after every possible place of record i
      after(i) == {j \in 1..n : ~ DateTimeLeq(machine_df[j], machine_df[i])}
      notbefore(i) == {j \in 1..n : DateTimeLeq(machine_df[i], machine_df[j])}
      \* in the tail whatever the order of equal keys
      certain == {i \in 1..n : Cardinality(notbefore(i)) <= recent_records}
      \* in the tail for some order of equal keys
      possible == {i \in 1..n : Cardinality(after(i)) < recent_records}
  IN  {certain \cup T : T \in {U \in SUBSET (possible \ certain) :
                                  Cardinality(certain \cup U) = recent_records}}

MachineUnknown_TableEmpty(rows, machine_id) == rows = <<>>

\* machine_df.empty
MachineUnknown(rows, machine_id) == Group(rows, machine_id) = <<>>

\* the features of a machine with records, for one outcome of the sort
MachineFeatures(machine_df, tail) ==
  LET target_sum == SumCol(machine_df, "Target_Output")
      actual_sum == SumCol(machine_df, "Actual_Output")
  IN  [avg_downtime_24h |->
         Mean([i \in 1..Len(machine_df) |-> FromInt(machine_df[i].Downtime_Minutes)]),
       max_downtime_24h |-> MaxCol(machine_df, "Downtime_Minutes"),
       downtime_frequency |->
         Cardinality({i \in 1..Len(machine_df) : machine_df[i].Downtime_Minutes > 0}),
       production_efficiency |->
         IF target_sum > 0 THEN FDiv(FromInt(actual_sum), FromInt(target_sum))
         ELSE FromInt(1),
       defect_rate |->
         IF actual_sum > 0
         THEN FDiv(FromInt(SumCol(machine_df, "Defects")), FromInt(actual_sum))
         ELSE FromInt(0),
       operation_hours |-> Len(machine_df),
       has_recent_downtime |->
         IF \E i \in tail : machine_df[i].Downtime_Minutes > 0 THEN 1 ELSE 0]

\* every features row prepare_machine_features may return for a known machine
prepare_machine_features(rows, machine_id) ==
  LET machine_df == Group(rows, machine_id)
  IN  {MachineFeatures(machine_df, tail) :
         tail \in TailChoices(machine_df, MinInt(5, Len(machine_df)))}

ColumnsAfterFeatures_InPlace(cols) == cols \cup {"DateTime"}

\* the columns of the table passed, after prepare_machine_features: the
\* DateTime column is added to machine_df, a copy of the machine's rows
ColumnsAfterFeatures(cols) == cols

EfficiencyPoints_Rounded(production_efficiency) ==
  MaxInt(0, MinInt(40,
    Round(FMul(FAdd(FromInt(1), FNeg(production_efficiency)), FromInt(100)))))

\* max(0, min(40, int((1 - efficiency) * 100)))
EfficiencyPoints(production_efficiency) ==
  MaxInt(0, MinInt(40,
    Trunc(FMul(FAdd(FromInt(1), FNeg(production_efficiency)), FromInt(100)))))

DefectPoints_Rounded(defect_rate) == MinInt(Round(FMul(defect_rate, FromInt(100))), 10)

\* min(int(defect_rate * 100), 10)
DefectPoints(defect_rate) == MinInt(Trunc(FMul(defect_rate, FromInt(100))), 10)

\* the four terms added to the score
RiskPoints(features) ==
  [frequency  |-> MinInt(features.downtime_frequency * 10, 30),
   recent     |-> IF features.has_recent_downtime = 1 THEN 20 ELSE 0,
   efficiency |-> EfficiencyPoints(features.production_efficiency),
   defects    |-> DefectPoints(features.defect_rate)]

\* the fallback adds no terms
NoPoints == [frequency |-> 0, recent |-> 0, efficiency |-> 0, defects |-> 0]

\* the heuristic score of predict_downtime
RiskScore(features) ==
  LET points == RiskPoints(features)
      score == points.frequency + points.recent + points.efficiency + points.defects
  IN  MinInt(score, 100)

\* the prediction window grows with the number of records of the machine
Horizon_FromTwenty(n) == IF n >= 20 THEN 24 ELSE IF n > 10 THEN 12 ELSE 4

Horizon(n) == IF n > 20 THEN 24 ELSE IF n > 10 THEN 12 ELSE 4

\* the model file after predict_downtime on a known machine: trained and
\* dumped when absent or unreadable, loaded otherwise
ModelFileAfter(file) ==
  IF file = "absent" THEN "present"
  ELSE IF file = "present" THEN file
  ELSE "present"

InsufficientHistory_EmptyOnly(machine_df) == machine_df = <<>>

\* machine_df.empty or len(machine_df) < 3
InsufficientHistory(machine_df) == machine_df = <<>> \/ Len(machine_df) < 3

NoneInt == [none |-> TRUE, v |-> 0]

SomeInt(v) == [none |-> FALSE, v |-> v]

TargetResult(optimal_target, confidence, message) ==
  [optimal_target |-> optimal_target, confidence |-> confidence, message |-> message]

OptimalHigh_Rounded(max_output, avg_output) ==
  MaxInt(Round(FMul(max_output, Fin(105, 100))), Round(FMul(avg_output, Fin(11, 10))))

\* avg_efficiency >= 0.95
OptimalHigh(max_output, avg_output) ==
  MaxInt(Trunc(FMul(max_output, Fin(105, 100))), Trunc(FMul(avg_output, Fin(11, 10))))

\* 0.8 <= avg_efficiency < 0.95
OptimalMid(avg_output, avg_efficiency) == Trunc(FDiv(avg_output, avg_efficiency))

\* the remaining case
OptimalLow(avg_output) == Trunc(FMul(avg_output, Fin(11, 10)))

predict_production_targets(rows, machine_id) ==
  LET machine_df == Group(rows, machine_id)
      avg_efficiency == AvgEfficiency(machine_df)
      avg_output ==
        Mean([i \in 1..Len(machine_df) |-> FromInt(machine_df[i].Actual_Output)])
      max_output == MaxCol(machine_df, "Actual_Output")
  IN  IF InsufficientHistory(machine_df)
        THEN TargetResult(NoneInt, 0, "Insufficient data for prediction")
      ELSE IF FGe(avg_efficiency, Fin(95, 100))
        THEN TargetResult(SomeInt(OptimalHigh(max_output, avg_output)), 80,
               "Machine consistently meets targets, can increase production target.")
      ELSE IF FGe(avg_efficiency, Fin(8, 10))
        THEN TargetResult(SomeInt(OptimalMid(avg_output, avg_efficiency)), 70,
               "Machine performs well, maintain current targets.")
      ELSE TargetResult(SomeInt(OptimalLow(avg_output)), 60,
               "Machine struggles to meet targets, consider adjustment.")

---------------------------------------------------------------------------
(* utils.py *)

\* datetime.time(hour, minute)
Time(hour, minute) == [hour |-> hour, minute |-> minute]

\* datetime.datetime of a date and a time of day
DateTime(date, hour, minute) == [date |-> date, hour |-> hour, minute |-> minute]

\* isinstance(current_time, datetime)
IsDateTime(current_time) == "date" \in DOMAIN current_time

\* datetime.time()
TimePart(current_time) == Time(current_time.hour, current_time.minute)

\* a <= b on time objects
TimeLeq(a, b) == a.hour < b.hour \/ (a.hour = b.hour /\ a.minute <= b.minute)

TimeLt_OrEqual(a, b) == TimeLeq(a, b)

\* a < b on time objects
TimeLt(a, b) == a.hour < b.hour \/ (a.hour = b.hour /\ a.minute < b.minute)

get_shift_from_time(current_time) ==
  LET t == IF IsDateTime(current_time) THEN TimePart(current_time) ELSE current_time
      morning_start == Time(6, 0)
      afternoon_start == Time(14, 0)
      night_start == Time(22, 0)
  IN  IF TimeLeq(morning_start, t) /\ TimeLt(t, afternoon_start) THEN "Morning"
      ELSE IF TimeLeq(afternoon_start, t) /\ TimeLt(t, night_start) THEN "Afternoon"
      ELSE "Night"

---------------------------------------------------------------------------
(* Operations.  out holds the call last made and what it returned. *)

Out(op, arg, val) == [op |-> op, arg |-> arg, val |-> val, exc |-> "none"]

\* the call ended in an exception that reached the caller
Raise(op, arg, exc) == [op |-> op, arg |-> arg, val |-> 0, exc |-> exc]

NoOut == Out("none", 0, 0)

PrepareAnomalyFeatures ==
  /\ IF GroupKeyMissing(columns, df)
     THEN out' = Raise("prepare_anomaly_features", 0, "KeyError")
     ELSE out' = Out("prepare_anomaly_features", 0, prepare_anomaly_features(columns, df))
  /\ UNCHANGED <<df, columns, model_file, data_file>>

\* detect_anomalies(df).  The fit of a group may raise (the case the except
\* clause is written for); a group whose fit raised has no labelled rows.
DetectAnomalies ==
  LET feature_df == prepare_anomaly_features(columns, df)
      F == feature_df.rows
  IN  /\ IF GroupKeyMissing(columns, df)
         THEN out' = Raise("detect_anomalies", DetectTrace({}, {}), "KeyError")
         ELSE IF feature_df.none \/ F = <<>>
         THEN out' = Out("detect_anomalies", DetectTrace({}, {}), <<>>)
         ELSE \E O \in Labellings(F) :
                \E fit_failed \in SUBSET FitMayFail(F, O) :
                  LET trace == DetectTrace({F[j].index : j \in O},
                                           FailedIds(columns, F, O, fit_failed))
                      ids == EligibleIds(F)
                  IN  \E conf \in [Reported(columns, F, O, fit_failed) -> 70..95] :
                        out' = Out("detect_anomalies", trace,
                                   DetectLoop(columns, df, F, ids, O, conf, fit_failed))
      /\ UNCHANGED <<df, columns, model_file, data_file>>

\* determine_anomaly_reason applied to the record at position i of the table
DetermineAnomalyReason ==
  /\ \E i \in 1..Len(df) :
       out' = Out("determine_anomaly_reason", i - 1, determine_anomaly_reason(df[i], df))
  /\ UNCHANGED <<df, columns, model_file, data_file>>

\* the columns prepare_machine_features reads from the rows of a machine
FeatureCols ==
  {"Date", "Timestamp", "Downtime_Minutes", "Actual_Output", "Target_Output", "Defects"}

\* the columns predict_production_targets reads from a history of 3 or more
TargetCols == {"Actual_Output", "Target_Output"}

\* predict_downtime(df, machine_id); the result is <<risk_score, hours>>,
\* followed here by the terms the score was added up from.  Reading a column the table lacks raises KeyError; no handler catches it.
PredictDowntime(machine_id) ==
  IF "Machine_ID" \notin columns
  THEN /\ out' = Raise("predict_downtime", machine_id, "KeyError")
       /\ UNCHANGED <<df, columns, model_file, data_file>>
  ELSE IF MachineUnknown(df, machine_id)
  THEN /\ \E score \in 10..90 : \E hours \in {2, 4, 8, 12, 24} :
            out' = Out("predict_downtime", machine_id, <<score, hours, NoPoints>>)
       /\ UNCHANGED <<df, columns, model_file, data_file>>
  ELSE IF ~ (FeatureCols \subseteq columns)
  THEN /\ out' = Raise("predict_downtime", machine_id, "KeyError")
       /\ UNCHANGED <<df, columns, model_file, data_file>>
  ELSE /\ \E features \in prepare_machine_features(df, machine_id) :
            out' = Out("predict_downtime", machine_id,
                       <<RiskScore(features), Horizon(Len(Group(df, machine_id))),
                         RiskPoints(features)>>)
       /\ model_file' = ModelFileAfter(model_file)
       /\ columns' = ColumnsAfterFeatures(columns)
       /\ UNCHANGED <<df, data_file>>

PredictProductionTargets(machine_id) ==
  /\ IF "Machine_ID" \notin columns
     THEN out' = Raise("predict_production_targets", machine_id, "KeyError")
     ELSE IF InsufficientHistory(Group(df, machine_id))
     THEN out' = Out("predict_production_targets", machine_id,
                     predict_production_targets(df, machine_id))
     ELSE IF ~ (TargetCols \subseteq columns)
     THEN out' = Raise("predict_production_targets", machine_id, "KeyError")
     ELSE out' = Out("predict_production_targets", machine_id,
                     predict_production_targets(df, machine_id))
  /\ UNCHANGED <<df, columns, model_file, data_file>>

\* the dates of the datetime arguments of get_shift_from_time
ShiftDates == {1, 2}

\* get_shift_from_time(current_time) on a time of day or on a datetime
GetShiftFromTime ==
  /\ \E hour \in 0..23 : \E minute \in 0..59 :
       \E current_time \in {Time(hour, minute)}
                            \cup {DateTime(date, hour, minute) : date \in ShiftDates} :
         out' = Out("get_shift_from_time", current_time, get_shift_from_time(current_time))
  /\ UNCHANGED <<df, columns, model_file, data_file>>

\* manufacturing_data.csv: absent, or holding the rows last written to it
NoFile == [exists |-> FALSE, rows |-> <<>>]

---------------------------------------------------------------------------
(* data_manager.py, import_data.py and the handlers of app.py *)

\* the content of a CSV file that exists
File(rows) == [exists |-> TRUE, rows |-> rows]

\* load_data(): the rows of the data file, the empty table when it is absent
\* (or cannot be parsed: a table without columns is written as an empty file)
load_data(file) == IF file.exists THEN file.rows ELSE <<>>

\* save_data(df): to_csv overwrites the data file with the table; when it
\* raises, the error is printed, False is returned and the file is as before
save_data(rows, file, written) == IF written THEN File(rows) ELSE file

\* a row of hourly_sheet.csv
ImportRow(m, date, shift, t, a, d, dt) ==
  [Machine_ID |-> m, Date |-> date, Shift |-> shift, Target_Output |-> t,
   Actual_Output |-> a, Cumulative_Output |-> a, Defects_Rework |-> d,
   Downtime_Minutes |-> dt]

\* the record import_hourly_sheet_data makes of a row: Defects is taken from
\* Defects_Rework and the Timestamp is the date at 00:00:00
new_record(row) ==
  [Machine_ID |-> row.Machine_ID, Date |-> row.Date, Time |-> 0, Shift |-> row.Shift,
   Target_Output |-> row.Target_Output, Actual_Output |-> row.Actual_Output,
   Cumulative_Output |-> row.Cumulative_Output, Defects |-> row.Defects_Rework,
   Downtime_Minutes |-> row.Downtime_Minutes]

\* hourly_sheet.csv: absent, not parseable by read_csv, or its rows and
\* whether it has every column the loop reads
NoImportFile ==
  [exists |-> FALSE, readable |-> FALSE, complete |-> FALSE, rows |-> <<>>]

UnreadableImportFile ==
  [exists |-> TRUE, readable |-> FALSE, complete |-> FALSE, rows |-> <<>>]

ImportFile(complete, rows) ==
  [exists |-> TRUE, readable |-> TRUE, complete |-> complete, rows |-> rows]

ImportFails_AbsentOnly(import_file) == ~ import_file.exists

\* import_hourly_sheet_data() leaves the data file as it was when the import
\* file is absent, read_csv raises or a row lacks a column (KeyError): the
\* exception is caught and (False, message) returned
ImportFails(import_file) ==
  \/ ~ import_file.exists
  \/ ~ import_file.readable
  \/ ~ import_file.complete /\ import_file.rows # <<>>

\* the table import_hourly_sheet_data passes to save_data
ImportedTable(import_file) ==
  [i \in 1..Len(import_file.rows) |-> new_record(import_file.rows[i])]

\* the text inputs of the entry form, each filled in or left empty
TextFields == {"Machine_ID", "Operator_Name", "Product_Name"}

\* what the operator entered: the record it makes, and the inputs filled in
Form(record, filled) == [record |-> record, filled |-> filled]

RequiredFields_NoProduct == {"Machine_ID", "Operator_Name"}

\* the required text fields of the entry form
RequiredFields == {"Machine_ID", "Operator_Name", "Product_Name"}

\* Submit Hourly Data: with a required field empty an error is shown; else
\* the record is appended to the session table, the table is saved (the
\* result of save_data is not looked at) and success is shown
SubmitWithin(max_rows, record, filled, written) ==
  IF \E f \in RequiredFields : ~ filled[f]
  THEN /\ out' = Out("submit", Form(record, filled), "error")
       /\ UNCHANGED <<df, columns, model_file, data_file>>
  ELSE /\ Len(df) < max_rows
       /\ df' = Append(df, record)
       /\ data_file' = save_data(df', data_file, written)
       /\ out' = Out("submit", Form(record, filled), "success")
       /\ UNCHANGED <<columns, model_file>>

Submit(record, filled, written) == SubmitWithin(MaxRowsApp, record, filled, written)

\* Import Hourly Sheet Data: on success the session table is reloaded from
\* the data file; import_hourly_sheet_data reports success whatever
\* save_data returned
Import(import_file, written) ==
  IF ImportFails(import_file)
  THEN /\ out' = Out("import", import_file, "error")
       /\ UNCHANGED <<df, columns, model_file, data_file>>
  ELSE /\ data_file' = save_data(ImportedTable(import_file), data_file, written)
       /\ df' = load_data(data_file')
       /\ out' = Out("import", import_file, "success")
       /\ UNCHANGED <<columns, model_file>>

---------------------------------------------------------------------------
(* Input tables of the specifications. *)

\* one machine with every kind of zero denominator, and a second machine
FeatRows ==
  { Row(1, 1, 8, "Morning", 10, 8, 1, 5),
    Row(1, 1, 9, "Morning", 0, 0, 0, 0),
    Row(1, 1, 10, "Morning", 0, 5, 0, 0),
    Row(1, 1, 11, "Morning", 10, 0, 2, 30),
    Row(1, 1, 12, "Morning", 0, -3, -1, 0),
    Row(2, 1, 8, "Morning", 10, 10, 0, 0) }

\* two machines, the first with two kinds of record
GroupRows ==
  { Row(1, 1, 8, "Morning", 10, 10, 0, 0),
    Row(1, 2, 15, "Afternoon", 10, 4, 2, 30),
    Row(2, 1, 8, "Morning", 10, 10, 0, 0) }

ColumnRows ==
  { Row(1, 1, 8, "Morning", 10, 10, 0, 0),
    Row(1, 2, 15, "Afternoon", 10, 4, 2, 30) }

\* one machine with records that meet the attribution rules in every
\* combination, and a second machine with long downtime
ReasonRows ==
  { Row(1, 1, 8, "Morning", 10, 10, 0, 0),
    Row(1, 1, 9, "Morning", 10, 2, 1, 30),
    Row(1, 1, 10, "Morning", 10, 10, 0, 30),
    Row(1, 1, 11, "Morning", 10, 5, 0, 0),
    Row(1, 1, 12, "Morning", 10, 10, 3, 0),
    Row(1, 1, 13, "Morning", 0, 0, 0, 0),
    Row(2, 1, 8, "Morning", 10, 10, 0, 60) }

\* form records, imported records outside the form's ranges (downtime above
\* 60, a negative defect count) and a second machine
RiskRows ==
  { Row(1, 1, 8, "Morning", 10, 10, 0, 0),
    Row(1, 1, 9, "Morning", 10, 5, 1, 90),
    Row(1, 2, 0, "Night", 0, 0, 0, 0),
    Row(1, 2, 0, "Night", 10, 10, -1, 0),
    Row(2, 1, 8, "Morning", 10, 10, 0, 0) }

\* imported records of one date, whose timestamps are all 00:00:00, with and
\* without downtime, and a record of the day before
RecentRows ==
  { Row(1, 2, 0, "Morning", 10, 10, 0, 0),
    Row(1, 2, 0, "Morning", 10, 10, 0, 30),
    Row(1, 1, 0, "Morning", 10, 10, 0, 30) }

FrameRows ==
  { Row(1, 1, 8, "Morning", 10, 10, 0, 0),
    Row(1, 2, 15, "Afternoon", 10, 4, 2, 30) }

MissingRows ==
  { Row(1, 1, 8, "Morning", 10, 10, 0, 0),
    Row(1, 1, 9, "Morning", 10, 5, 1, 30) }

\* records the entry form can submit
FormRows ==
  { Row(1, 1, 8, "Morning", 10, 10, 0, 0),
    Row(2, 1, 15, "Afternoon", 10, 4, 2, 30) }

ImportRows ==
  { ImportRow(1, 1, "Morning", 10, 9, 1, 0),
    ImportRow(3, 1, "Night", 0, 0, 0, 90) }

ImportFiles ==
  {NoImportFile, UnreadableImportFile} \cup
  {ImportFile(complete, rows) :
     complete \in BOOLEAN, rows \in SeqsUpTo(ImportRows, MaxRowsImport)}

\* the machine ids a prediction is asked for
RequestedIds == {1, 2}

TargetRows ==
  { Row(1, 1, 8, "Morning", 100, 100, 0, 0),
    Row(1, 1, 9, "Morning", 7, 7, 0, 0),
    Row(1, 1, 10, "Morning", 10, 9, 0, 0),
    Row(1, 1, 11, "Morning", 10, 7, 0, 0),
    Row(1, 1, 12, "Morning", 0, 0, 0, 0),
    Row(1, 1, 13, "Morning", 0, 10, 0, 0),
    Row(2, 1, 8, "Morning", 10, 10, 0, 0) }

\* n records of machine m, the one at position odd (if any) unlike the rest
Block(m, n, odd) ==
  [i \in 1..n |-> IF i = odd THEN Row(m, 2, 15, "Afternoon", 10, 4, 2, 30)
                  ELSE Row(m, 1, 8, "Morning", 10, 10, 0, 0)]

\* two machines, each with enough records to be fitted on or one short of it
FailTables ==
  {Block(1, n1, odd1) \o Block(2, n2, odd2) :
     n1 \in 4..MaxGroupFail, odd1 \in {0, 1}, n2 \in 4..MaxGroupFail, odd2 \in {0, 2}}

---------------------------------------------------------------------------
(* Specifications. *)

InitFeat ==
  /\ df \in SeqsUpTo(FeatRows, MaxRowsFeat)
  /\ columns = AllCols
  /\ model_file = "absent"
  /\ data_file = NoFile
  /\ out = NoOut

\* Each behaviour draws a table and makes one call on it: no call reads out,
\* so a further call on the same table returns what a first call can return.
NextFeat == out = NoOut /\ PrepareAnomalyFeatures

SpecFeat == InitFeat /\ [][NextFeat]_vars

InitGroups ==
  /\ df \in SeqsUpTo(GroupRows, MaxRowsGroups)
  /\ columns = AllCols
  /\ model_file = "absent"
  /\ data_file = NoFile
  /\ out = NoOut

NextGroups ==
  \/ out = NoOut /\ PrepareAnomalyFeatures
  \/ out = NoOut /\ DetectAnomalies

SpecGroups == InitGroups /\ [][NextGroups]_vars

\* tables read from a data file that lacks some of the numeric columns or
\* the Machine_ID column
InitColumns ==
  /\ df \in SeqsUpTo(ColumnRows, MaxRowsColumns)
  /\ columns \in {AllCols \ S : S \in SUBSET (NumericCols \cup {"Machine_ID"})}
  /\ model_file = "absent"
  /\ data_file = NoFile
  /\ out = NoOut

NextColumns ==
  \/ out = NoOut /\ PrepareAnomalyFeatures
  \/ out = NoOut /\ DetectAnomalies

SpecColumns == InitColumns /\ [][NextColumns]_vars

\* tables with two machines, read from a data file that may lack the Date or
\* the Shift column
InitFail ==
  /\ df \in FailTables
  /\ columns \in {AllCols, AllCols \ {"Date"}, AllCols \ {"Shift"}}
  /\ model_file = "absent"
  /\ data_file = NoFile
  /\ out = NoOut

NextFail == out = NoOut /\ DetectAnomalies

SpecFail == InitFail /\ [][NextFail]_vars

\* the four analytics on one table
InitFrame ==
  /\ df \in SeqsUpTo(FrameRows, MaxRowsFrame)
  /\ columns = AllCols
  /\ model_file = "absent"
  /\ data_file = NoFile
  /\ out = NoOut

NextFrame ==
  \/ out = NoOut /\ PrepareAnomalyFeatures
  \/ out = NoOut /\ DetectAnomalies
  \/ out = NoOut /\ \E machine_id \in RequestedIds : PredictDowntime(machine_id)
  \/ out = NoOut /\ \E machine_id \in RequestedIds : PredictProductionTargets(machine_id)

SpecFrame == InitFrame /\ [][NextFrame]_vars

\* tables read from a data file that lacks one of the numeric columns or the
\* Machine_ID column
InitMissing ==
  /\ df \in SeqsUpTo(MissingRows, MaxRowsMissing)
  /\ columns \in {AllCols} \cup {AllCols \ {c} : c \in NumericCols \cup {"Machine_ID"}}
  /\ model_file = "absent"
  /\ data_file = NoFile
  /\ out = NoOut

NextMissing ==
  \/ out = NoOut /\ \E machine_id \in RequestedIds : PredictDowntime(machine_id)
  \/ out = NoOut /\ \E machine_id \in RequestedIds : PredictProductionTargets(machine_id)

SpecMissing == InitMissing /\ [][NextMissing]_vars

InitShift ==
  /\ df = <<>>
  /\ columns = AllCols
  /\ model_file = "absent"
  /\ data_file = NoFile
  /\ out = NoOut

NextShift == out = NoOut /\ GetShiftFromTime

SpecShift == InitShift /\ [][NextShift]_vars

\* the app, started without a data file
Init ==
  /\ data_file = NoFile
  /\ df = load_data(data_file)
  /\ columns = AllCols
  /\ model_file = "absent"
  /\ out = NoOut

Next ==
  \/ \E record \in FormRows : \E filled \in [TextFields -> BOOLEAN] :
       \E written \in BOOLEAN : Submit(record, filled, written)
  \/ \E import_file \in ImportFiles : \E written \in BOOLEAN :
       Import(import_file, written)

Spec == Init /\ [][Next]_vars

\* histories of more than 5 records with equal dates and times of day
InitRecent ==
  /\ df \in SeqsUpTo(RecentRows, MaxRowsRecent)
  /\ columns = AllCols
  /\ model_file = "absent"
  /\ data_file = NoFile
  /\ out = NoOut

NextRecent == out = NoOut /\ PredictDowntime(1)

SpecRecent == InitRecent /\ [][NextRecent]_vars

\* the record entered in the hour after n records: one machine, one per hour
HorizonRecord(n) == Row(1, 1, n, get_shift_from_time(Time(n, 0)), 10, 10, 0, 0)

\* a session that starts with one record of machine 1 in the data file; the
\* operator submits a record per hour and asks for predictions in between
InitHorizon ==
  /\ data_file = File(<<HorizonRecord(0)>>)
  /\ df = load_data(data_file)
  /\ columns = AllCols
  /\ model_file \in {"absent", "present", "unreadable"}
  /\ out = NoOut

NextHorizon ==
  \/ \E filled \in [TextFields -> BOOLEAN] :
       SubmitWithin(MaxRowsHorizon, HorizonRecord(Len(df)), filled, TRUE)
  \/ PredictDowntime(1)

SpecHorizon == InitHorizon /\ [][NextHorizon]_vars

InitReason ==
  /\ df \in SeqsUpTo(ReasonRows, MaxRowsReason)
  /\ columns = AllCols
  /\ model_file = "absent"
  /\ data_file = NoFile
  /\ out = NoOut

NextReason == out = NoOut /\ DetermineAnomalyReason

SpecReason == InitReason /\ [][NextReason]_vars

\* the model file may be left by an earlier call, or be unreadable
InitRisk ==
  /\ df \in SeqsUpTo(RiskRows, MaxRowsRisk)
  /\ columns = AllCols
  /\ model_file \in {"absent", "present", "unreadable"}
  /\ data_file = NoFile
  /\ out = NoOut

NextRisk == out = NoOut /\ \E machine_id \in RequestedIds : PredictDowntime(machine_id)

SpecRisk == InitRisk /\ [][NextRisk]_vars

InitTarget ==
  /\ df \in SeqsUpTo(TargetRows, MaxRowsTarget)
  /\ columns = AllCols
  /\ model_file = "absent"
  /\ data_file = NoFile
  /\ out = NoOut

NextTarget ==
  out = NoOut /\ \E machine_id \in RequestedIds : PredictProductionTargets(machine_id)

SpecTarget == InitTarget /\ [][NextTarget]_vars

---------------------------------------------------------------------------
(* Claims about the feature deriver and the anomaly engine. *)

Prepared == out.op = "prepare_anomaly_features"

Detected == out.op = "detect_anomalies"

GroupSize(m) == Cardinality(Positions(df, m))

\* x is the finite value num/den
IsRatio(x, num, den) == IsFin(x) /\ x.n * den = num * x.d

\* the derived value of a record: num/den, and exactly 0 when den is 0
DerivedOk(x, num, den) ==
  IF den = 0 THEN x = FromInt(0) ELSE IsRatio(x, num, den)

\* C1: every feature row of prepare_anomaly_features carries efficiency =
\* actual/target, defect_rate = defects/actual and downtime_per_unit =
\* downtime/actual of its record, each exactly 0 when its denominator is 0,
\* and none of them NaN or infinite.
C1_DerivedRatios ==
  (Prepared /\ ~ out.val.none) =>
    \A j \in 1..Len(out.val.rows) :
      LET f == out.val.rows[j]
          r == df[f.index + 1]
      IN  /\ DerivedOk(f.efficiency, r.Actual_Output, r.Target_Output)
          /\ DerivedOk(f.defect_rate, r.Defects, r.Actual_Output)
          /\ DerivedOk(f.downtime_per_unit, r.Downtime_Minutes, r.Actual_Output)
          /\ IsFin(f.efficiency) /\ IsFin(f.defect_rate) /\ IsFin(f.downtime_per_unit)

\* a retained group holding a zero target under a positive and under a
\* negative output, a 0/0 record and a zero output under positive defects
\* and downtime
C1_Witness ==
  /\ Prepared /\ ~ out.val.none
  /\ \E j \in 1..Len(out.val.rows) :
       LET r == df[out.val.rows[j].index + 1]
       IN  r.Target_Output = 0 /\ r.Actual_Output > 0 /\ out.val.rows[j].efficiency = FromInt(0)
  /\ \E j \in 1..Len(out.val.rows) :
       LET r == df[out.val.rows[j].index + 1]
       IN  r.Target_Output = 0 /\ r.Actual_Output < 0
  /\ \E j \in 1..Len(out.val.rows) :
       LET r == df[out.val.rows[j].index + 1]
       IN  r.Target_Output = 0 /\ r.Actual_Output = 0
  /\ \E j \in 1..Len(out.val.rows) :
       LET r == df[out.val.rows[j].index + 1]
       IN  /\ r.Actual_Output = 0 /\ r.Defects > 0 /\ r.Downtime_Minutes > 0
           /\ out.val.rows[j].defect_rate = FromInt(0)
           /\ out.val.rows[j].downtime_per_unit = FromInt(0)

\* C2: every anomaly detect_anomalies returns belongs to a machine whose
\* group has at least 5 records (feature rows).
C2_NoAnomalyUnderFive ==
  Detected => \A j \in 1..Len(out.val) : GroupSize(out.val[j].machine_id) >= 5

\* an anomaly is reported while another machine has 3 or 4 feature rows
C2_Witness ==
  /\ Detected /\ out.val # <<>>
  /\ \E m \in MachineIds(df) : GroupSize(m) \in 3..4

\* C9: on a table that is empty, has fewer than 5 records or lacks a numeric
\* column, prepare_anomaly_features returns None and detect_anomalies the
\* empty list.
C9_NotEnoughData ==
  (Len(df) < 5 \/ \E c \in NumericCols : c \notin columns) =>
    /\ Prepared => (out.exc = "none" /\ out.val.none)
    /\ Detected => (out.exc = "none" /\ out.val = <<>>)

\* detection ran on a table of 5 or more records with a numeric column missing
C9_Witness ==
  /\ Detected /\ out.val = <<>>
  /\ Len(df) >= 5
  /\ "Defects" \notin columns
  /\ "Target_Output" \in columns

\* the feature rows are exactly one per record of the groups of 3 or more,
\* tagged with the machine id and the index of the record
FeatureRowsExact(F) ==
  /\ \A j \in 1..Len(F) :
       /\ F[j].index + 1 \in 1..Len(df)
       /\ df[F[j].index + 1].Machine_ID = F[j].machine_id
       /\ GroupSize(F[j].machine_id) >= 3
  /\ \A i \in 1..Len(df) :
       GroupSize(df[i].Machine_ID) >= 3 =>
         Cardinality({j \in 1..Len(F) : F[j].index = i - 1}) = 1
  /\ \A i \in 1..Len(df) :
       GroupSize(df[i].Machine_ID) < 3 => ~ \E j \in 1..Len(F) : F[j].index = i - 1

\* C10 as stated: for every table, groups under 3 records are excluded and
\* every record of a group of 3 or more gets exactly one feature row.
C10_Original == Prepared => FeatureRowsExact(out.val.rows)

\* C10 amended: the same, for the tables that pass the size and column
\* checks (5 or more records, the five numeric columns present).
C10_FeatureRows ==
  (Prepared /\ Len(df) >= 5 /\ NumericCols \subseteq columns) =>
    /\ FeatureRowsExact(out.val.rows)
    /\ out.val.none <=> ~ \E m \in MachineIds(df) : GroupSize(m) >= 3

\* one group is retained and a group of 1 or 2 records is left out
C10_Witness ==
  /\ Prepared /\ ~ out.val.none
  /\ \E m \in MachineIds(df) : GroupSize(m) \in 1..2
  /\ \E j \in 1..Len(out.val.rows) : out.val.rows[j].index > 0

\* C3: whenever the record's downtime exceeds twice the mean downtime of its
\* machine and exceeds 10 minutes, determine_anomaly_reason returns the
\* unusual-downtime message, whatever the other rules say.
C3_DowntimeFirst ==
  out.op = "determine_anomaly_reason" =>
    LET r == df[out.arg + 1]
        g == Group(df, r.Machine_ID)
    IN  (/\ r.Downtime_Minutes * Len(g) > 2 * SumCol(g, "Downtime_Minutes")
         /\ r.Downtime_Minutes > 10)
        => out.val.kind = "Unusual downtime"

\* rule (a) holds together with rules (b), (c) and (d)
C3_Witness ==
  /\ out.op = "determine_anomaly_reason"
  /\ out.val.kind = "Unusual downtime"
  /\ LET r == df[out.arg + 1]
         g == Group(df, r.Machine_ID)
     IN  /\ RuleDowntime(r, AvgDowntime(g))
         /\ RuleEfficiency(RecordEfficiency(r), AvgEfficiency(g))
         /\ RuleDefects(RecordDefectRate(r), AvgDefectRate(g))
         /\ RuleBelowTarget(r)

\* the indexes of the records the anomalies of machine m were built from
ReportedFor(m) ==
  {out.val[j].index : j \in {i \in 1..Len(out.val) : out.val[i].machine_id = m}}

\* the indexes of the records of machine m the detector labelled -1
LabelledFor(m) == {i \in out.arg.labelled : df[i + 1].Machine_ID = m}

\* C11: a failure while one machine group is processed does not reach the
\* caller, and every other machine group still reports exactly the anomalies
\* of its labelled records, whether it is processed before or after.
C11_FailureIsolated ==
  Detected =>
    /\ out.exc = "none"
    /\ \A m \in MachineIds(df) \ out.arg.failed :
         /\ ReportedFor(m) = LabelledFor(m)
         /\ Cardinality({i \in 1..Len(out.val) : out.val[i].machine_id = m})
              = Cardinality(LabelledFor(m))

\* the first machine failed and the second, processed after it, reports its
\* anomaly
C11_Witness ==
  /\ Detected
  /\ out.arg.failed = {1}
  /\ Len(out.val) = 1
  /\ out.val[1].machine_id = 2

\* C13: every anomaly is built from one record the detector labelled -1 and
\* carries that record's machine id, date and shift and a confidence in
\* 70..95; no record gives two anomalies in one call.
C13_AnomalyPerOutlier ==
  Detected =>
    /\ \A j \in 1..Len(out.val) :
         LET a == out.val[j]
         IN  /\ a.index + 1 \in 1..Len(df)
             /\ a.index \in LabelledFor(a.machine_id)
             /\ df[a.index + 1].Machine_ID = a.machine_id
             /\ df[a.index + 1].Date = a.date
             /\ df[a.index + 1].Shift = a.shift
             /\ a.confidence \in 70..95
    /\ \A i, j \in 1..Len(out.val) : out.val[i].index = out.val[j].index => i = j

\* an anomaly of a record that is not the first of the table and differs
\* from the record before it in date and shift
C13_Witness ==
  /\ Detected
  /\ \E j \in 1..Len(out.val) :
       LET a == out.val[j]
       IN  /\ a.index > 0
           /\ a.confidence = 95
           /\ df[a.index].Date # a.date
           /\ df[a.index].Shift # a.shift

\* the mean of num/den over the records of g, a record with a zero
\* denominator counting as 0
FlooredMean(g, num, den) ==
  Mean([i \in 1..Len(g) |->
          IF g[i][den] = 0 THEN FromInt(0)
          ELSE FDiv(FromInt(g[i][num]), FromInt(g[i][den]))])

\* C18: the averages determine_anomaly_reason compares with, and prints, are
\* simple means over all records of the machine in which a record with a
\* zero denominator counts as 0.
C18_AveragesFloored ==
  out.op = "determine_anomaly_reason" =>
    LET g == Group(df, df[out.arg + 1].Machine_ID)
    IN  /\ out.val.kind = "Unusual downtime" =>
             out.val.y = Fin(SumCol(g, "Downtime_Minutes"), Len(g))
        /\ out.val.kind = "Production efficiency dropped" =>
             out.val.y = FlooredMean(g, "Actual_Output", "Target_Output")
        /\ out.val.kind = "High defect rate" =>
             out.val.y = FlooredMean(g, "Defects", "Actual_Output")

\* rules (a) to (d) on the record r of the group g, with the averages as
\* determine_anomaly_reason computes them
HoldsA(r, g) ==
  r.Downtime_Minutes * Len(g) > 2 * SumCol(g, "Downtime_Minutes") /\ r.Downtime_Minutes > 10

HoldsB(r, g) ==
  LET efficiency == IF r.Target_Output > 0 THEN Fin(r.Actual_Output, r.Target_Output)
                    ELSE FromInt(0)
  IN  FGt(FMul(Fin(7, 10), AvgEfficiency(g)), efficiency) /\ FLt(FromInt(0), AvgEfficiency(g))

HoldsC(r, g) ==
  LET defect_rate == IF r.Actual_Output > 0 THEN Fin(r.Defects, r.Actual_Output)
                     ELSE FromInt(0)
  IN  /\ FLt(FAdd(Fin(1, 20), FMul(Fin(3, 2), AvgDefectRate(g))), defect_rate)
      /\ FLt(Fin(1, 10), defect_rate)

HoldsD(r) == 10 * r.Actual_Output < 6 * r.Target_Output /\ r.Target_Output > 0

\* C19: when rule (a) does not hold the message is that of the first of the
\* rules (b), (c), (d) that holds, and it is the generic one iff none of (a)
\* to (d) holds.
C19_FirstRuleWins ==
  out.op = "determine_anomaly_reason" =>
    LET r == df[out.arg + 1]
        g == Group(df, r.Machine_ID)
    IN  /\ ~ HoldsA(r, g) =>
             out.val.kind =
               IF HoldsB(r, g) THEN "Production efficiency dropped"
               ELSE IF HoldsC(r, g) THEN "High defect rate"
               ELSE IF HoldsD(r) THEN "Output significantly below target"
               ELSE "Unusual production pattern detected"
        /\ out.val.kind = "Unusual production pattern detected" <=>
             ~ (HoldsA(r, g) \/ HoldsB(r, g) \/ HoldsC(r, g) \/ HoldsD(r))

\* rules (b), (c) and (d) hold together on a record that rule (a) passes
C19_Witness ==
  /\ out.op = "determine_anomaly_reason"
  /\ out.val.kind = "Production efficiency dropped"
  /\ LET r == df[out.arg + 1]
         g == Group(df, r.Machine_ID)
     IN  ~ HoldsA(r, g) /\ HoldsB(r, g) /\ HoldsC(r, g) /\ HoldsD(r)

---------------------------------------------------------------------------
(* Claims about the risk scorer and the target advisor. *)

PredictedDowntime == out.op = "predict_downtime"

PredictedTargets == out.op = "predict_production_targets"

\* C4: for a machine with at least one record predict_downtime returns a
\* score in 0..100 and a horizon of 4, 12 or 24 hours, also on imported
\* records outside the entry form's ranges.
C4_ScoreInRange ==
  (PredictedDowntime /\ GroupSize(out.arg) >= 1) =>
    /\ out.val[1] \in 0..100
    /\ out.val[2] \in {4, 12, 24}

\* C5: for a machine without records predict_downtime returns a score in
\* 10..90 and a horizon among 2, 4, 8, 12, 24.
C5_UnknownMachineFallback ==
  (PredictedDowntime /\ GroupSize(out.arg) = 0) =>
    /\ out.val[1] \in 10..90
    /\ out.val[2] \in {2, 4, 8, 12, 24}

\* the fallback answered on a table that holds records of another machine only
C5_Witness ==
  /\ PredictedDowntime
  /\ df # <<>>
  /\ GroupSize(out.arg) = 0
  /\ out.val[1] = 90
  /\ out.val[2] = 2

\* the three input records with actual = target = 100
AllHundred(g) ==
  Len(g) = 3 /\ \A i \in 1..3 : g[i].Actual_Output = 100 /\ g[i].Target_Output = 100

\* C6: with 3 or more records the confidence is 80 iff avg_efficiency >= 0.95,
\* 70 iff 0.80 <= avg_efficiency < 0.95, 60 iff avg_efficiency < 0.80, the
\* target is never absent, and three records 100/100 give 110 at confidence 80.
C6_BandFromAvgEfficiency ==
  (PredictedTargets /\ GroupSize(out.arg) >= 3) =>
    LET g == Group(df, out.arg)
        avg_efficiency == AvgEfficiency(g)
    IN  /\ out.val.confidence = 80 <=> FGe(avg_efficiency, Fin(95, 100))
        /\ out.val.confidence = 70 <=>
             (FGe(avg_efficiency, Fin(80, 100)) /\ FLt(avg_efficiency, Fin(95, 100)))
        /\ out.val.confidence = 60 <=> FLt(avg_efficiency, Fin(80, 100))
        /\ ~ out.val.optimal_target.none
        /\ AllHundred(g) => (out.val.optimal_target.v = 110 /\ out.val.confidence = 80)

\* n/d cut to an integer toward zero, for d > 0
TowardZero(n, d) == IF n >= 0 THEN n \div d ELSE -((-n) \div d)

\* n/d rounded to the nearest integer, halves to the even one, for d > 0
Nearest(n, d) ==
  LET f == n \div d
  IN  IF 2 * (n - f * d) < d THEN f
      ELSE IF 2 * (n - f * d) > d THEN f + 1
      ELSE IF f % 2 = 0 THEN f ELSE f + 1

\* the target of each band from integer sums, with cut(n, d) making n/d an
\* integer: max(cut(max x 1.05), cut(avg x 1.1)) at confidence 80,
\* cut(avg_output / avg_efficiency) at 70, cut(avg x 1.1) at 60
TargetBy(cut(_, _), g, confidence) ==
  LET n == Len(g)
      total == SumCol(g, "Actual_Output")
      top == MaxCol(g, "Actual_Output").n
      e == AvgEfficiency(g)
  IN  CASE confidence = 80 -> MaxInt(cut(21 * top, 20), cut(11 * total, 10 * n))
        [] confidence = 70 -> cut(total * e.d, n * e.n)
        [] OTHER -> cut(11 * total, 10 * n)

\* C7 as stated: the target is rounded to the nearest integer.
C7_Original ==
  (PredictedTargets /\ GroupSize(out.arg) >= 3) =>
    out.val.optimal_target.v = TargetBy(Nearest, Group(df, out.arg), out.val.confidence)

\* C7 amended: the target is cut toward zero (int()), not rounded.
C7_TargetTruncated ==
  (PredictedTargets /\ GroupSize(out.arg) >= 3) =>
    out.val.optimal_target.v = TargetBy(TowardZero, Group(df, out.arg), out.val.confidence)

\* in each band, a history on which cutting and rounding differ
C7_WitnessBand(confidence) ==
  /\ PredictedTargets /\ GroupSize(out.arg) >= 3
  /\ out.val.confidence = confidence
  /\ TargetBy(Nearest, Group(df, out.arg), confidence) # out.val.optimal_target.v

C7_Witness == C7_WitnessBand(70)

\* C8: with fewer than 3 records of the machine the result is the
\* insufficient-data one: no target, confidence 0.
C8_InsufficientData ==
  (PredictedTargets /\ GroupSize(out.arg) < 3) =>
    /\ out.val.optimal_target.none
    /\ out.val.confidence = 0
    /\ out.val.message = "Insufficient data for prediction"

\* the machine has two records
C8_Witness ==
  /\ PredictedTargets
  /\ GroupSize(out.arg) = 2
  /\ out.val.confidence = 0

\* the efficiency term from integer sums, with cut(n, d) making n/d an
\* integer: clamp(cut((1 - actual/target) x 100), 0, 40), and 0 when the
\* targets sum to 0
EfficiencyTermBy(cut(_, _), g) ==
  LET target_sum == SumCol(g, "Target_Output")
      actual_sum == SumCol(g, "Actual_Output")
  IN  IF target_sum > 0
      THEN MaxInt(0, MinInt(40, cut(100 * (target_sum - actual_sum), target_sum)))
      ELSE 0

DefectTermBy(cut(_, _), g) ==
  LET actual_sum == SumCol(g, "Actual_Output")
      defect_sum == SumCol(g, "Defects")
  IN  IF actual_sum > 0 THEN MinInt(cut(100 * defect_sum, actual_sum), 10) ELSE 0

\* C21 as stated: the defect term of the score is
\* min(round(defect_rate x 100), 10), rounded to the nearest integer.
C21_Original ==
  (PredictedDowntime /\ out.exc = "none" /\ GroupSize(out.arg) >= 1) =>
    out.val[3].defects = DefectTermBy(Nearest, Group(df, out.arg))

\* C21 amended: the term is cut toward zero (int()), not rounded.
C21_DefectsTruncated ==
  (PredictedDowntime /\ out.exc = "none" /\ GroupSize(out.arg) >= 1) =>
    out.val[3].defects = DefectTermBy(TowardZero, Group(df, out.arg))

\* a history of non-negative defect counts on which cutting and rounding
\* differ, under the cap of 10
C21_Witness ==
  /\ PredictedDowntime /\ out.exc = "none" /\ GroupSize(out.arg) >= 1
  /\ \A i \in 1..Len(df) : df[i].Defects >= 0
  /\ out.val[3].defects \in 1..9
  /\ out.val[3].defects # DefectTermBy(Nearest, Group(df, out.arg))

\* the records of g with a date and time of day after those of g[i]
Later(g, i) == {j \in 1..Len(g) : ~ DateTimeLeq(g[j], g[i])}

\* C22: the 20 recent-downtime points are added iff one of the machine's 5
\* chronologically latest records (a record with fewer than 5 records after
\* it) has downtime above 0, whatever the order of the records in the table
\* and also when records share their date and time of day.
C22_RecentDowntime ==
  (PredictedDowntime /\ out.exc = "none" /\ GroupSize(out.arg) >= 1) =>
    LET g == Group(df, out.arg)
    IN  out.val[3].recent = 20 <=>
          \E i \in 1..Len(g) :
            g[i].Downtime_Minutes > 0 /\ Cardinality(Later(g, i)) < 5

\* the horizon of a history of n records
HorizonOfHistory(n) ==
  IF n > 20 THEN 24 ELSE IF n > 10 THEN 12 ELSE 4

\* a step that is a call of predict_downtime for a machine with records
DowntimeCallKnown ==
  /\ df' = df /\ out'.op = "predict_downtime" /\ out'.exc = "none"
  /\ GroupSize(out'.arg) >= 1

\* C23: every call for a known machine returns the horizon 24 with more than
\* 20 records of the machine, 12 with 11 to 20 and 4 with at most 10, which
\* is never less than the horizon of a shorter history of that machine.
C23_HorizonBySize ==
  [][DowntimeCallKnown =>
       /\ out'.val[2] = HorizonOfHistory(GroupSize(out'.arg))
       /\ \A k \in 1..GroupSize(out'.arg) :
            out'.val[2] >= HorizonOfHistory(k)]_vars

C23_Witness ==
  /\ PredictedDowntime /\ out.exc = "none"
  /\ GroupSize(out.arg) > 20 /\ out.val[2] = 24

\* C24: a call of predict_downtime leaves the files as they were: the model
\* file and the data file after the call are those before it.
C24_NothingPersisted ==
  [][out'.op = "predict_downtime" =>
       (model_file' = model_file /\ data_file' = data_file)]_vars

\* C25: in predict_production_targets a record with a zero target counts as
\* efficiency 0 in avg_efficiency, so the band returned is the band of the
\* finite mean in which such records are 0.
C25_ZeroTargetIsZero ==
  (PredictedTargets /\ out.exc = "none" /\ GroupSize(out.arg) >= 3) =>
    LET avg_efficiency ==
          FlooredMean(Group(df, out.arg), "Actual_Output", "Target_Output")
    IN  /\ IsFin(avg_efficiency)
        /\ out.val.confidence = 80 <=> FGe(avg_efficiency, Fin(95, 100))
        /\ out.val.confidence = 70 <=>
             (FGe(avg_efficiency, Fin(80, 100)) /\ FLt(avg_efficiency, Fin(95, 100)))
        /\ out.val.confidence = 60 <=> FLt(avg_efficiency, Fin(80, 100))

\* the places, counted from 0 within the records of machine m, of the
\* records of m whose index in the table is in S
WithinGroup(m, S) ==
  LET pos == SortedIds(Positions(df, m))
  IN  {k - 1 : k \in {i \in 1..Len(pos) : pos[i] - 1 \in S}}

\* the sets of records detect_anomalies can flag in the table that holds the
\* records of machine m and no others
FlaggedAlone(m) ==
  LET feature_df == prepare_anomaly_features(columns, Group(df, m))
  IN  IF feature_df.none THEN {{}}
      ELSE {{feature_df.rows[j].index : j \in O} : O \in Labellings(feature_df.rows)}

C27_SubmitPersisted ==
  /\ (out.op = "submit" /\ out.val = "success") => data_file = File(df)
  /\ load_data(data_file) = df

\* C28: a Submit with Machine ID, Operator Name or Product Name empty shows
\* an error and leaves the session table and the data file as they were; a
\* Submit with all three filled in appends the record entered, and nothing
\* else, to the session table.
C28_SubmitValidated ==
  [][out'.op = "submit" =>
       IF \E f \in {"Machine_ID", "Operator_Name", "Product_Name"} :
            ~ out'.arg.filled[f]
       THEN out'.val = "error" /\ df' = df /\ data_file' = data_file
       ELSE /\ out'.val = "success"
            /\ df' = Append(df, out'.arg.record)
            /\ Len(df') = Len(df) + 1]_vars

\* a Submit without a product name was rejected on a table with records
C28_Witness ==
  /\ out.op = "submit" /\ out.val = "error" /\ df # <<>>
  /\ out.arg.filled["Machine_ID"] /\ out.arg.filled["Operator_Name"]
  /\ ~ out.arg.filled["Product_Name"]

\* the import file is absent, cannot be read or lacks a column a row is
\* converted from
ImportCannotConvert(import_file) ==
  \/ ~ import_file.exists
  \/ ~ import_file.readable
  \/ \E i \in 1..Len(import_file.rows) : ~ import_file.complete

\* C29: an Import whose file is absent, unreadable or lacks a column reports
\* the failure without raising and leaves the data file and the session
\* table as they were; the data file changes only in an Import that reports
\* success, and then holds one record for every row of the import file.
C29_FailedImportHarmless ==
  [][out'.op = "import" =>
       /\ out'.exc = "none"
       /\ ImportCannotConvert(out'.arg) =>
            (out'.val = "error" /\ df' = df /\ data_file' = data_file)
       /\ data_file' # data_file =>
            /\ out'.val = "success"
            /\ ~ ImportCannotConvert(out'.arg)
            /\ Len(data_file'.rows) = Len(out'.arg.rows)]_vars

\* an import file with rows that lack a column was refused while the session
\* table and the data file held records
C29_Witness ==
  /\ out.op = "import" /\ out.val = "error"
  /\ out.arg.readable /\ ~ out.arg.complete /\ out.arg.rows # <<>>
  /\ df # <<>> /\ data_file.exists

---------------------------------------------------------------------------
(* Claims about the table passed to the analytics. *)

\* C14: a call of detect_anomalies, prepare_anomaly_features,
\* predict_downtime or predict_production_targets leaves the table it was
\* passed as it was: the same rows in the same order, the same columns.
C14_TableUntouched == [][df' = df /\ columns' = columns]_vars

\* predict_downtime answered from the records of the machine, after adding
\* the DateTime column to its copy of them
C14_Witness ==
  /\ PredictedDowntime
  /\ GroupSize(out.arg) = MaxRowsFrame
  /\ model_file = "present"
  /\ columns = AllCols

\* C15: on a table that lacks a numeric column predict_downtime returns a
\* fallback score and horizon and predict_production_targets the
\* insufficient-data result, and no call ends in an exception.
C15_MissingColumnsNeutral ==
  /\ out.exc = "none"
  /\ (\E c \in NumericCols : c \notin columns) =>
       /\ PredictedDowntime =>
            (out.val[1] \in 10..90 /\ out.val[2] \in {2, 4, 8, 12, 24})
       /\ PredictedTargets =>
            (out.val.optimal_target.none /\ out.val.confidence = 0)

---------------------------------------------------------------------------
(* Claims about the shift of a time of day. *)

\* minutes since midnight of the argument of the call
MinuteOfDay == 60 * out.arg.hour + out.arg.minute

\* C16: get_shift_from_time answers on every time of day: Morning iff
\* 06:00 <= t < 14:00, Afternoon iff 14:00 <= t < 22:00, Night iff t >= 22:00
\* or t < 06:00; a datetime gets the answer of its time of day.
C16_ShiftOfTime ==
  out.op = "get_shift_from_time" =>
    /\ out.exc = "none"
    /\ out.val \in {"Morning", "Afternoon", "Night"}
    /\ out.val = "Morning" <=> (360 <= MinuteOfDay /\ MinuteOfDay < 840)
    /\ out.val = "Afternoon" <=> (840 <= MinuteOfDay /\ MinuteOfDay < 1320)
    /\ out.val = "Night" <=> (MinuteOfDay >= 1320 \/ MinuteOfDay < 360)

\* a datetime at 14:00 sharp is in the afternoon shift
C16_Witness ==
  /\ out.op = "get_shift_from_time"
  /\ IsDateTime(out.arg)
  /\ out.arg.hour = 14 /\ out.arg.minute = 0
  /\ out.val = "Afternoon"

---------------------------------------------------------------------------
(* Claims about the session table of the app. *)

\* the records of s are found in t, in the same order
RECURSIVE IsSubseq(_, _)
IsSubseq(s, t) ==
  IF s = <<>> THEN TRUE
  ELSE IF t = <<>> THEN FALSE
  ELSE IF Head(s) = Head(t) THEN IsSubseq(Tail(s), Tail(t))
  ELSE IsSubseq(s, Tail(t))

\* C17: over any sequence of Submits and Imports every record of the
\* session table before the step is still in it after the step, unchanged
\* and in the same relative order.
C17_OnlyAppended == [][IsSubseq(df, df')]_vars

====
